---- MODULE Spec2Model ----
(***************************************************************************)
(* Model of src/dispatcher/binder.ts (chimee): the Binder multiplexes      *)
(* logical subscribers onto at most one native listener per (target, name),*)
(* buffers kernel registrations made before the media engine exists,       *)
(* migrates listeners on a kernel switch and tracks pointer containment.   *)
(*                                                                         *)
(* An event name is a sequence of tokens: "c_play" is <<"c_", "play">>,    *)
(* "beforePlay" is <<"before", "Play">>, "play" is <<"play">>.             *)
(***************************************************************************)
EXTENDS Integers, Sequences, FiniteSets, TLC

VARIABLES
    kernel,             \* dispatcher.kernel: "none" or the current media engine
    listeners,          \* physical source -> sequence of attached [name, fn]
    videoExtendedNodes, \* dispatcher.dom.videoExtendedNodes (overlay nodes)
    mouseInVideo,       \* dispatcher.dom.mouseInVideo
    bindedEventNames,   \* target -> sequence of names
    bindedEventInfo,    \* target -> sequence of <<name, fn>>
    pendingEventsInfo,  \* target -> sequence of <<name, id>>
    buses,              \* target -> set of logical subscriptions
    deferred,           \* fan-outs scheduled by Bus.trigger, not yet run
    last,               \* what the last operation did (observation only)
    ops                 \* number of operations performed so far

vars == <<kernel, listeners, videoExtendedNodes, mouseInVideo, bindedEventNames,
          bindedEventInfo, pendingEventsInfo, buses, deferred, last, ops>>

----------------------------------------------------------------------------
(* Bounds *)
MaxFn == 3          \* closures alive (attached or recorded) at one time
MaxSubs == 2        \* logical subscriptions held by all buses together
MaxPending == 2     \* entries of one pending queue
MaxDeferred == 1    \* deferred fan-outs in flight
MaxOps == 4         \* operations in one run

----------------------------------------------------------------------------
(* Sequence helpers *)
Range(s) == {s[i] : i \in 1..Len(s)}

IndexOf(s, x) ==
    IF \E i \in 1..Len(s) : s[i] = x
    THEN (CHOOSE i \in 1..Len(s) : s[i] = x /\ \A j \in 1..(i-1) : s[j] # x) - 1
    ELSE -1

RemoveAt(s, i) == SubSeq(s, 1, i - 1) \o SubSeq(s, i + 1, Len(s))

----------------------------------------------------------------------------
(* The fixed sets *)
kinds == <<"kernel", "container", "wrapper", "video", "video-dom", "plugin", "esFullscreen">>
Targets == Range(kinds)

Kernels == {"K1", "K2"}
DomNodes == {"videoElement", "container", "wrapper", "pnode", "video2"}
Sources == Kernels \cup DomNodes

\* const/event membership tables
videoEvents == {<<"pause">>}
kernelEvents == {<<"play">>, <<"heartbeat">>, <<"error">>}
domEvents == {<<"click">>, <<"mouseenter">>, <<"mouseleave">>}
esFullscreenEvents == {<<"fullscreenchange">>}
mustListenVideoDomEvents == << <<"mouseenter">>, <<"mouseleave">> >>
isMustListenVideoDomEvent(name) == name \in Range(mustListenVideoDomEvents)

\* const/regExp secondaryEventReg = /^(before|after|_)/
secondaryEventReg == {"before", "after", "_"}
SecondaryMatch(name) == Len(name) > 0 /\ Head(name) \in secondaryEventReg

\* lodash camelCase on a token sequence: first word lower-cased
LowerWord(w) ==
    CASE w = "Play" -> "play"
      [] w = "Pause" -> "pause"
      [] w = "Click" -> "click"
      [] OTHER -> w
camelCase(name) ==
    IF Len(name) = 0 THEN name ELSE <<LowerWord(Head(name))>> \o Tail(name)

----------------------------------------------------------------------------
(* Name/target resolution *)
getEventTargetByOldLogic(oldName) ==
    IF Len(oldName) > 0 /\ Head(oldName) \in {"c_", "w_"}
    THEN [ok |-> TRUE, name |-> Tail(oldName),
          target |-> IF Head(oldName) = "c_" THEN "container" ELSE "wrapper"]
    ELSE IF oldName = <<"error">>
    THEN [ok |-> TRUE, name |-> <<"error">>, target |-> "kernel"]
    ELSE [ok |-> FALSE, name |-> oldName, target |-> ""]

getEventStage(name) ==
    IF SecondaryMatch(name)
    THEN [name |-> camelCase(Tail(name)), stage |-> Head(name)]
    ELSE [name |-> name, stage |-> "main"]

getEventTargetByEventName(name) ==
    IF name \in videoEvents THEN "video"
    ELSE IF name \in kernelEvents THEN "kernel"
    ELSE IF name \in domEvents THEN "video-dom"
    ELSE IF name \in esFullscreenEvents THEN "esFullscreen"
    ELSE "plugin"

\* info.target = "" and info.stage = "" stand for "not supplied"
getEventInfo(info) ==
    LET oldInfo == getEventTargetByOldLogic(info.name)
        name1   == IF oldInfo.ok THEN oldInfo.name ELSE info.name
        target1 == IF oldInfo.ok THEN oldInfo.target ELSE info.target
        st      == getEventStage(name1)
    IN [name   |-> st.name,
        stage  |-> IF info.stage # "" THEN info.stage ELSE st.stage,
        target |-> IF target1 = "" THEN getEventTargetByEventName(st.name) ELSE target1]

\* mutant: the handler is not validated
prettifyEventParameterLenient(info) ==
    LET r == getEventInfo(info)
    IN [threw |-> FALSE, id |-> info.id, name |-> r.name,
        stage |-> r.stage, target |-> r.target]

\* info.fnOk: the handler is callable
prettifyEventParameter(info) ==
    LET r == getEventInfo(info)
    IN [threw |-> ~info.fnOk, id |-> info.id, name |-> r.name,
        stage |-> r.stage, target |-> r.target]

\* a value that is not a string (an object, a number): as an id it is the
\* token itself, as a name it is the one-token sequence
NonString == "{object}"
isString(v) == v # NonString

\* mutant: the id is not looked at
isEventEmitalbeAnyId(info) ==
    /\ Len(info.name) > 0
    /\ isString(Head(info.name))
    /\ ~SecondaryMatch(info.name)

\* id = "" / name = <<>> stand for a missing or empty value
isEventEmitalbe(info) ==
    /\ Len(info.name) > 0
    /\ isString(Head(info.name))
    /\ ~SecondaryMatch(info.name)
    /\ info.id # ""
    /\ isString(info.id)

----------------------------------------------------------------------------
(* Native attach / detach primitives *)

\* dom-helpers on(node, name, fn): addEventListener ignores a listener already there
addEvent(ls, node, name, fn) ==
    IF [name |-> name, fn |-> fn] \in Range(ls[node])
    THEN ls
    ELSE [ls EXCEPT ![node] = Append(@, [name |-> name, fn |-> fn])]

\* dom-helpers off(node, name, fn): removing an absent listener is a no-op
removeEvent(ls, node, name, fn) ==
    [ls EXCEPT ![node] = SelectSeq(@, LAMBDA e : e # [name |-> name, fn |-> fn])]

\* ChimeeKernel.on / ChimeeKernel.off
kernelOn(ls, k, name, fn) == [ls EXCEPT ![k] = Append(@, [name |-> name, fn |-> fn])]
kernelOff(ls, k, name, fn) ==
    [ls EXCEPT ![k] = SelectSeq(@, LAMBDA e : e # [name |-> name, fn |-> fn])]

\* a closure created by the binder: kind is the method its body calls
\* ("triggerSync", "trigger") or "vm" for the containment handler
Closure(ser, kind, target, name) ==
    [ser |-> ser, kind |-> kind, target |-> target, name |-> name]

----------------------------------------------------------------------------
(* The binder's own structures, threaded through its private methods:      *)
(* b = [ls, names, info, pending, threw]                                   *)

BinderState ==
    [ls |-> listeners, names |-> bindedEventNames, info |-> bindedEventInfo,
     pending |-> pendingEventsInfo, threw |-> FALSE]

\* serials of the closures some source or some NativeBinding still refers to
LiveFns(b) ==
    UNION {{b.ls[n][i].fn.ser : i \in 1..Len(b.ls[n])} : n \in Sources}
      \cup UNION {{b.info[t][i][2].ser : i \in 1..Len(b.info[t])} : t \in Targets}

\* identity of a newly created closure: a serial no live closure carries
\* (a closure nothing refers to any more cannot be told from a new one)
FreshFn(b) ==
    CHOOSE n \in 1..(Cardinality(LiveFns(b)) + 1) :
        n \notin LiveFns(b) /\ \A m \in 1..(n - 1) : m \in LiveFns(b)

getTargetDom(target) ==
    IF target \in {"container", "wrapper"} THEN target ELSE "videoElement"

isEventNeedToBeHandled(target, name) ==
    /\ target # "plugin"
    /\ target # "esFullscreen"
    /\ (~isMustListenVideoDomEvent(name) \/ target # "video")

\* mutant: the entry goes to the queue of the video target
addPendingEventOnVideo(b, target, name, id) ==
    [b EXCEPT !.pending["video"] = Append(@, <<name, id>>)]

addPendingEvent(b, target, name, id) ==
    [b EXCEPT !.pending[target] = Append(@, <<name, id>>)]

\* attach fn to each node of nodes (a sequence), in order
RECURSIVE AddEventEach(_, _, _, _)
AddEventEach(b, nodes, name, fn) ==
    IF nodes = <<>> THEN b
    ELSE AddEventEach([b EXCEPT !.ls = addEvent(@, Head(nodes), name, fn)],
                      Tail(nodes), name, fn)

RECURSIVE RemoveEventEach(_, _, _, _)
RemoveEventEach(b, nodes, name, fn) ==
    IF nodes = <<>> THEN b
    ELSE RemoveEventEach([b EXCEPT !.ls = removeEvent(@, Head(nodes), name, fn)],
                         Tail(nodes), name, fn)

\* mutant: the "already binded" check is missing
IsBindedNever(names, name) == FALSE

\* line 372: "if this event has been binded, return"
IsBinded(names, name) == IndexOf(names, name) > -1

\* lines 393-394
RecordBinding(b, target, name, fn) ==
    [b EXCEPT !.names[target] = Append(@, name),
              !.info[target] = Append(@, <<name, fn>>)]

addEventListenerOnTarget(b, name, target, id) ==
    IF ~isEventNeedToBeHandled(target, name) THEN b
    ELSE IF IsBinded(b.names[target], name) THEN b
    ELSE LET targetDom == getTargetDom(target) IN
      IF target = "kernel" THEN
        IF kernel = "none" THEN addPendingEvent(b, target, name, id)
        ELSE LET fn == Closure(FreshFn(b), "triggerSync", target, name) IN
             RecordBinding([b EXCEPT !.ls = kernelOn(@, kernel, name, fn)],
                           target, name, fn)
      ELSE IF target \in {"container", "wrapper"} THEN
        LET fn == Closure(FreshFn(b), "triggerSync", target, name) IN
        RecordBinding(AddEventEach(b, <<targetDom>>, name, fn), target, name, fn)
      ELSE IF target = "video" THEN
        LET fn == Closure(FreshFn(b), "trigger", target, name) IN
        RecordBinding(AddEventEach(b, <<targetDom>>, name, fn), target, name, fn)
      ELSE \* target = "video-dom"
        LET fn == Closure(FreshFn(b), "triggerSync", target, name) IN
        RecordBinding(AddEventEach(b, videoExtendedNodes \o <<targetDom>>, name, fn),
                      target, name, fn)

----------------------------------------------------------------------------
(* Bus (dispatcher/bus): one set of logical subscriptions per target.      *)
(* A subscription is [id, name, stage, once]; each id owns one handler.    *)

Sub(id, name, stage, once) == [id |-> id, name |-> name, stage |-> stage, once |-> once]

BusOn(bus, id, name, stage) == bus \cup {Sub(id, name, stage, FALSE)}
BusOnce(bus, id, name, stage) == bus \cup {Sub(id, name, stage, TRUE)}
BusOff(bus, id, name, stage) ==
    {s \in bus : ~(s.id = id /\ s.name = name /\ s.stage = stage)}
hasEvents(bus) == bus # {}

\* the subscribers a fan-out of name invokes, each once
BusMatching(bus, name) == {s \in bus : s.name = name}
\* after a fan-out the one-shot subscribers it invoked are gone
BusAfterFanOut(bus, name) == {s \in bus : ~(s.name = name /\ s.once)}

----------------------------------------------------------------------------
(* Fan-out state, threaded through the callbacks of one native firing:     *)
(* f = [buses, deferred, invoked, mouseInVideo, synth]                     *)

FanState ==
    [buses |-> buses, deferred |-> deferred, invoked |-> <<>>,
     mouseInVideo |-> mouseInVideo, synth |-> 0]

\* one immediate fan-out on the bus of target under name
FanOut(f, target, name) ==
    [f EXCEPT !.invoked = Append(@, [target |-> target, name |-> name,
                                     subs |-> BusMatching(f.buses[target], name)]),
              !.buses[target] = BusAfterFanOut(@, name)]

\* mutant: the validity guard is inverted
triggerSyncInverted(f, info) ==
    IF isEventEmitalbe(info) THEN f
    ELSE FanOut(f, getEventInfo(info).target, info.name)

\* Binder.triggerSync / Binder.emitSync: the bus is given the name as passed
triggerSync(f, info) ==
    IF ~isEventEmitalbe(info) THEN f
    ELSE FanOut(f, getEventInfo(info).target, info.name)

\* Binder.trigger / Binder.emit: the bus schedules the fan-out
trigger(f, info) ==
    IF ~isEventEmitalbe(info) THEN f
    ELSE [f EXCEPT !.deferred =
              Append(@, [target |-> getEventInfo(info).target, name |-> info.name])]

\* Binder.emit: the bus is given the name as passed and schedules the fan-out
emit(f, info) ==
    IF ~isEventEmitalbe(info) THEN f
    ELSE [f EXCEPT !.deferred =
              Append(@, [target |-> getEventInfo(info).target, name |-> info.name])]

\* Binder.emitSync: the bus is given the name as passed and fans out at once
emitSync(f, info) ==
    IF ~isEventEmitalbe(info) THEN f
    ELSE FanOut(f, getEventInfo(info).target, info.name)

\* toxic-decorators runnable(cond, { backup }): what the decorated method
\* returns ("lastResult" is whatever the bus returned)
runnable(ok, backup) == IF ok THEN "lastResult" ELSE backup

\* the raw event a native callback receives: type, whether currentTarget is
\* inside the video region, whether toElement || relatedTarget is
RawEvent(type, curInside, toInside) ==
    [type |-> type, curInside |-> curInside, toInside |-> toInside]

\* mutant: the handler synthesizes without writing mouseInVideo
ContainmentHandlerNoFlip(f, name, ev) ==
    IF f.mouseInVideo /\ ev.type = <<"mouseleave">> /\ ~ev.toInside
    THEN triggerSync([f EXCEPT !.synth = @ + 1],
                     [id |-> "_vm", name |-> name, target |-> "video-dom", stage |-> ""])
    ELSE IF ~f.mouseInVideo /\ ev.type = <<"mouseenter">> /\ ev.curInside
    THEN triggerSync([f EXCEPT !.synth = @ + 1],
                     [id |-> "_vm", name |-> name, target |-> "video-dom", stage |-> ""])
    ELSE f

\* mutant: the handler does not look at mouseInVideo
ContainmentHandlerBlind(f, name, ev) ==
    IF ev.type = <<"mouseleave">> /\ ~ev.toInside
    THEN triggerSync([f EXCEPT !.mouseInVideo = FALSE, !.synth = @ + 1],
                     [id |-> "_vm", name |-> name, target |-> "video-dom", stage |-> ""])
    ELSE IF ev.type = <<"mouseenter">> /\ ev.curInside
    THEN triggerSync([f EXCEPT !.mouseInVideo = TRUE, !.synth = @ + 1],
                     [id |-> "_vm", name |-> name, target |-> "video-dom", stage |-> ""])
    ELSE f

\* body of the closure listenOnMouseMoveEvent installs for name
ContainmentHandler(f, name, ev) ==
    IF f.mouseInVideo /\ ev.type = <<"mouseleave">> /\ ~ev.toInside
    THEN triggerSync([f EXCEPT !.mouseInVideo = FALSE, !.synth = @ + 1],
                     [id |-> "_vm", name |-> name, target |-> "video-dom", stage |-> ""])
    ELSE IF ~f.mouseInVideo /\ ev.type = <<"mouseenter">> /\ ev.curInside
    THEN triggerSync([f EXCEPT !.mouseInVideo = TRUE, !.synth = @ + 1],
                     [id |-> "_vm", name |-> name, target |-> "video-dom", stage |-> ""])
    ELSE f

\* calling a closure the binder created
InvokeClosure(f, fn, ev) ==
    IF fn.kind = "vm" THEN ContainmentHandler(f, fn.name, ev)
    ELSE LET info == [id |-> fn.target, name |-> fn.name,
                      target |-> fn.target, stage |-> ""]
         IN IF fn.kind = "trigger" THEN trigger(f, info) ELSE triggerSync(f, info)

\* a native event: every listener attached to the source for name, in order
RECURSIVE InvokeEach(_, _, _, _)
InvokeEach(f, ls, name, ev) ==
    IF ls = <<>> THEN f
    ELSE InvokeEach(IF Head(ls).name = name THEN InvokeClosure(f, Head(ls).fn, ev) ELSE f,
                    Tail(ls), name, ev)

----------------------------------------------------------------------------
(* removeEventListenerOnTargetWhenIsUseless, applyPendingEvents, destroy    *)

\* mutant: the check for remaining subscribers is missing
BusStillUsedNever(bs, target) == FALSE

\* line 438: the bus still has a function bound
BusStillUsed(bs, target) == hasEvents(bs[target])

\* lines 444-449: index (0-based) of the first pair recorded under name
InfoIndex(infoList, name) ==
    IF \E i \in 1..Len(infoList) : infoList[i][1] = name
    THEN (CHOOSE i \in 1..Len(infoList) :
             infoList[i][1] = name /\ \A j \in 1..(i-1) : infoList[j][1] # name) - 1
    ELSE Len(infoList)

\* lines 467-468
SpliceBinding(b, target, index, nameIndex) ==
    [b EXCEPT !.info[target] = RemoveAt(@, index + 1),
              !.names[target] = RemoveAt(@, nameIndex + 1)]

removeEventListenerOnTargetWhenIsUseless(b, bs, name, target) ==
    IF ~isEventNeedToBeHandled(target, name) THEN b
    ELSE LET nameIndex == IndexOf(b.names[target], name)
             index == InfoIndex(b.info[target], name) IN
      IF nameIndex < 0 THEN b
      ELSE IF BusStillUsed(bs, target) THEN b
      ELSE IF index >= Len(b.info[target]) THEN b
      ELSE LET fn == b.info[target][index + 1][2] IN
        IF target = "kernel" THEN
          IF kernel = "none" THEN [b EXCEPT !.threw = TRUE]
          ELSE SpliceBinding([b EXCEPT !.ls = kernelOff(@, kernel, name, fn)],
                             target, index, nameIndex)
        ELSE SpliceBinding(
               RemoveEventEach(b, <<getTargetDom(target)>> \o
                                  (IF target = "video-dom" THEN videoExtendedNodes ELSE <<>>),
                               name, fn),
               target, index, nameIndex)

\* lines 168-171: pop() takes the entries from the end of the drained copy
RECURSIVE ReplayPending(_, _, _)
ReplayPending(b, copy, target) ==
    IF copy = <<>> THEN b
    ELSE LET e == copy[Len(copy)] IN
         ReplayPending(addEventListenerOnTarget(b, e[1], target, e[2]),
                       SubSeq(copy, 1, Len(copy) - 1), target)

\* mutant: the queue is replayed without being drained
applyPendingEventsKeep(b, target) ==
    ReplayPending(b, b.pending[target], target)

applyPendingEvents(b, target) ==
    ReplayPending([b EXCEPT !.pending[target] = <<>>], b.pending[target], target)

\* lines 200-202 / 205-211: detach every pair recorded for target
RECURSIVE DetachAll(_, _, _)
DetachAll(b, infoList, target) ==
    IF infoList = <<>> THEN b
    ELSE LET name == Head(infoList)[1]
             fn == Head(infoList)[2] IN
      IF target = "kernel" THEN
        IF kernel = "none" THEN [b EXCEPT !.threw = TRUE]
        ELSE DetachAll([b EXCEPT !.ls = kernelOff(@, kernel, name, fn)],
                       Tail(infoList), target)
      ELSE DetachAll(
             RemoveEventEach(b, <<getTargetDom(target)>> \o
                                (IF target = "video-dom" THEN videoExtendedNodes ELSE <<>>),
                             name, fn),
             Tail(infoList), target)

\* lines 213-214: what one pass of the loop over kinds clears
ClearAfterTarget(b, target) ==
    [b EXCEPT !.info["kernel"] = <<>>, !.names["kernel"] = <<>>]

RECURSIVE DestroyEach(_, _)
DestroyEach(b, targets) ==
    IF targets = <<>> \/ b.threw THEN b
    ELSE LET d == DetachAll(b, b.info[Head(targets)], Head(targets)) IN
         DestroyEach(IF d.threw THEN d ELSE ClearAfterTarget(d, Head(targets)),
                     Tail(targets))

\* mutant: each pass detaches and splices the first pair of its target only
\* (entries removed while the list is walked), and nothing is cleared at the end
RECURSIVE DestroyFirstEach(_, _)
DestroyFirstEach(b, targets) ==
    IF targets = <<>> \/ b.threw THEN b
    ELSE LET t == Head(targets) IN
         IF b.info[t] = <<>> THEN DestroyFirstEach(b, Tail(targets))
         ELSE DestroyFirstEach(
                [DetachAll(b, <<Head(b.info[t])>>, t) EXCEPT !.info[t] = Tail(@),
                                                            !.names[t] = Tail(@)],
                Tail(targets))
destroyFirstOnly(b) == DestroyFirstEach(b, kinds)

destroy(b) == DestroyEach(b, kinds)

----------------------------------------------------------------------------
(* listenOnMouseMoveEvent, migrateKernelEvent, bindEventOn...              *)

\* mutant: the pair is recorded without looking at bindedEventNames
RecordAlways(b, target, name, fn) ==
    [b EXCEPT !.names[target] = Append(@, name),
              !.info[target] = Append(@, <<name, fn>>)]

\* lines 286-289: record the pair unless the name is already recorded
RecordIfNew(b, target, name, fn) ==
    IF IndexOf(b.names[target], name) < 0
    THEN [b EXCEPT !.names[target] = Append(@, name),
                   !.info[target] = Append(@, <<name, fn>>)]
    ELSE b

RECURSIVE ListenEach(_, _, _)
ListenEach(b, node, names) ==
    IF names = <<>> THEN b
    ELSE LET name == Head(names)
             fn == Closure(FreshFn(b), "vm", "video-dom", name) IN
         ListenEach(RecordIfNew(AddEventEach(b, <<node>>, name, fn),
                                "video-dom", name, fn),
                    node, Tail(names))

listenOnMouseMoveEvent(b, node) == ListenEach(b, node, mustListenVideoDomEvents)

RECURSIVE MigrateEach(_, _, _, _)
MigrateEach(b, infoList, oldKernel, newKernel) ==
    IF infoList = <<>> THEN b
    ELSE LET name == Head(infoList)[1]
             fn == Head(infoList)[2] IN
         MigrateEach([b EXCEPT !.ls = kernelOn(kernelOff(@, oldKernel, name, fn),
                                               newKernel, name, fn)],
                     Tail(infoList), oldKernel, newKernel)

\* mutant: the callbacks are attached to newKernel but left on oldKernel
RECURSIVE MigrateEachNoOff(_, _, _, _)
MigrateEachNoOff(b, infoList, oldKernel, newKernel) ==
    IF infoList = <<>> THEN b
    ELSE MigrateEachNoOff([b EXCEPT !.ls = kernelOn(@, newKernel, Head(infoList)[1],
                                                    Head(infoList)[2])],
                          Tail(infoList), oldKernel, newKernel)
migrateKernelEventNoOff(b, oldKernel, newKernel) ==
    MigrateEachNoOff(b, b.info["kernel"], oldKernel, newKernel)

migrateKernelEvent(b, oldKernel, newKernel) ==
    MigrateEach(b, b.info["kernel"], oldKernel, newKernel)

RECURSIVE BindEach(_, _, _, _)
BindEach(b, infoList, node, remove) ==
    IF infoList = <<>> THEN b
    ELSE LET name == Head(infoList)[1]
             fn == Head(infoList)[2] IN
         BindEach(IF remove THEN RemoveEventEach(b, <<node>>, name, fn)
                            ELSE AddEventEach(b, <<node>>, name, fn),
                  Tail(infoList), node, remove)

bindEventOnPenetrateNode(b, node, remove) ==
    BindEach(b, b.info["video-dom"], node, remove)

bindEventOnVideo(b, node, remove) ==
    BindEach(b, b.info["video-dom"] \o b.info["video"], node, remove)

----------------------------------------------------------------------------
(* Inputs *)
Ids == {"p1", "p2"}

RawInfo(id, name, stage, target, fnOk) ==
    [id |-> id, name |-> name, stage |-> stage, target |-> target, fnOk |-> fnOk]

\* requests <<name, stage, target>> as subscribers write them
ReqPlay == <<<<"play">>, "", "">>
ReqHeartbeat == <<<<"heartbeat">>, "", "">>
ReqBeforePlay == <<<<"before", "Play">>, "", "">>
ReqContainerClick == <<<<"c_", "click">>, "", "">>
ReqWrapperClick == <<<<"click">>, "", "wrapper">>
ReqPause == <<<<"pause">>, "", "">>
ReqVideoEnter == <<<<"mouseenter">>, "", "video">>
ReqDomEnter == <<<<"mouseenter">>, "", "">>
ReqDomLeave == <<<<"mouseleave">>, "", "">>
ReqDomClick == <<<<"click">>, "after", "">>
ReqCustom == <<<<"custom">>, "", "">>
ReqFullscreen == <<<<"fullscreenchange">>, "", "">>
ReqVideoClick == <<<<"click">>, "", "video">>

Infos(ids, reqs) == {RawInfo(id, r[1], r[2], r[3], TRUE) : id \in ids, r \in reqs}
BadInfo == RawInfo("p1", <<"play">>, "", "", FALSE)

AllRequests == {ReqPlay, ReqHeartbeat, ReqBeforePlay, ReqContainerClick, ReqWrapperClick,
                ReqPause, ReqVideoEnter, ReqDomEnter, ReqDomClick, ReqCustom, ReqFullscreen}

MouseNames == Range(mustListenVideoDomEvents)
\* the raw events a source can fire under name
RawEvents(name) ==
    IF name \in MouseNames
    THEN {RawEvent(name, c, t) : c \in BOOLEAN, t \in BOOLEAN}
    ELSE {RawEvent(name, FALSE, FALSE)}

SubCount(bs) == Cardinality({<<t, s>> \in Targets \X UNION {bs[u] : u \in Targets} : s \in bs[t]})

----------------------------------------------------------------------------
(* State *)
NoOp == [op |-> "init", target |-> "", name |-> <<>>, node |-> "",
         invoked |-> <<>>, synth |-> 0, threw |-> FALSE,
         ev |-> RawEvent(<<>>, FALSE, FALSE), repeated |-> FALSE,
         id |-> "", ret |-> "", req |-> <<>>, res |-> <<>>,
         drained |-> <<>>]

Init ==
    /\ kernel = "none"
    /\ listeners = [n \in Sources |-> <<>>]
    /\ videoExtendedNodes = <<>>
    /\ mouseInVideo = FALSE
    /\ bindedEventNames = [t \in Targets |-> <<>>]
    /\ bindedEventInfo = [t \in Targets |-> <<>>]
    /\ pendingEventsInfo = [t \in Targets |-> <<>>]
    /\ buses = [t \in Targets |-> {}]
    /\ deferred = <<>>
    /\ last = NoOp
    /\ ops = 0

\* the bounds on what a private method may leave behind
Within(b) ==
    /\ \A n \in LiveFns(b) : n <= MaxFn
    /\ \A t \in Targets : Len(b.pending[t]) <= MaxPending

Commit(b) ==
    /\ listeners' = b.ls
    /\ bindedEventNames' = b.names
    /\ bindedEventInfo' = b.info
    /\ pendingEventsInfo' = b.pending

Did(op, target, name, node, b) ==
    [NoOp EXCEPT !.op = op, !.target = target, !.name = name, !.node = node,
                 !.threw = b.threw]

Threw(op) == [NoOp EXCEPT !.op = op, !.threw = TRUE]

\* one more operation, within the run's budget
Tick == ops < MaxOps /\ ops' = ops + 1

----------------------------------------------------------------------------
(* Operations *)

\* the dispatcher constructs the media engine
CreateKernel ==
    /\ kernel = "none"
    /\ kernel' = "K1"
    /\ Tick
    /\ last' = [NoOp EXCEPT !.op = "createKernel"]
    /\ UNCHANGED <<listeners, videoExtendedNodes, mouseInVideo, bindedEventNames,
                   bindedEventInfo, pendingEventsInfo, buses, deferred>>

On(info) ==
    LET p == prettifyEventParameter(info)
        b == addEventListenerOnTarget(BinderState, p.name, p.target, p.id)
        bs == [buses EXCEPT ![p.target] = BusOn(@, p.id, p.name, p.stage)]
    IN IF p.threw
       THEN /\ Tick
            /\ last' = [Threw("on") EXCEPT !.name = p.name]
            /\ UNCHANGED <<kernel, listeners, videoExtendedNodes, mouseInVideo,
                           bindedEventNames, bindedEventInfo, pendingEventsInfo,
                           buses, deferred>>
       ELSE /\ Within(b)
            /\ SubCount(bs) <= MaxSubs
            /\ Commit(b)
            /\ buses' = bs
            /\ Tick
            /\ last' = Did("on", p.target, p.name, "", b)
            /\ UNCHANGED <<kernel, videoExtendedNodes, mouseInVideo, deferred>>

\* mutant: once goes through addEventListenerOnTarget as on does
OnceAttaching(info) ==
    LET p == prettifyEventParameter(info)
        b == addEventListenerOnTarget(BinderState, p.name, p.target, p.id)
        bs == [buses EXCEPT ![p.target] = BusOnce(@, p.id, p.name, p.stage)]
    IN /\ ~p.threw
       /\ Within(b)
       /\ SubCount(bs) <= MaxSubs
       /\ Commit(b)
       /\ buses' = bs
       /\ Tick
       /\ last' = Did("once", p.target, p.name, "", b)
       /\ UNCHANGED <<kernel, videoExtendedNodes, mouseInVideo, deferred>>

Once(info) ==
    LET p == prettifyEventParameter(info)
        bs == [buses EXCEPT ![p.target] = BusOnce(@, p.id, p.name, p.stage)]
    IN IF p.threw
       THEN /\ Tick
            /\ last' = [Threw("once") EXCEPT !.name = p.name]
            /\ UNCHANGED <<kernel, listeners, videoExtendedNodes, mouseInVideo,
                           bindedEventNames, bindedEventInfo, pendingEventsInfo,
                           buses, deferred>>
       ELSE /\ SubCount(bs) <= MaxSubs
            /\ buses' = bs
            /\ Tick
            /\ last' = Did("once", p.target, p.name, "", BinderState)
            /\ UNCHANGED <<kernel, listeners, videoExtendedNodes, mouseInVideo,
                           bindedEventNames, bindedEventInfo, pendingEventsInfo,
                           deferred>>

Off(info) ==
    LET p == prettifyEventParameter(info)
        bs == [buses EXCEPT ![p.target] = BusOff(@, p.id, p.name, p.stage)]
        b == removeEventListenerOnTargetWhenIsUseless(BinderState, bs, p.name, p.target)
    IN IF p.threw
       THEN /\ Tick
            /\ last' = [Threw("off") EXCEPT !.name = p.name]
            /\ UNCHANGED <<kernel, listeners, videoExtendedNodes, mouseInVideo,
                           bindedEventNames, bindedEventInfo, pendingEventsInfo,
                           buses, deferred>>
       ELSE /\ Commit(b)
            /\ buses' = bs
            /\ Tick
            /\ last' = Did("off", p.target, p.name, "", b)
            /\ UNCHANGED <<kernel, videoExtendedNodes, mouseInVideo, deferred>>

ApplyPendingEvents(target) ==
    LET b == applyPendingEvents(BinderState, target)
    IN /\ Within(b)
       /\ Commit(b)
       /\ Tick
       /\ last' = [Did("applyPendingEvents", target, <<>>, "", b)
                     EXCEPT !.drained = pendingEventsInfo[target]]
       /\ UNCHANGED <<kernel, videoExtendedNodes, mouseInVideo, buses, deferred>>

ListenOnMouseMoveEvent(node) ==
    LET b == listenOnMouseMoveEvent(BinderState, node)
    IN /\ Within(b)
       /\ Commit(b)
       /\ Tick
       /\ last' = Did("listenOnMouseMoveEvent", "video-dom", <<>>, node, b)
       /\ UNCHANGED <<kernel, videoExtendedNodes, mouseInVideo, buses, deferred>>

\* Dispatcher.switchKernel: the binder moves the listeners from the current
\* engine to the new one, then the dispatcher installs the new one
MigrateKernelEvent(oldKernel, newKernel) ==
    LET b == migrateKernelEvent(BinderState, oldKernel, newKernel)
    IN /\ kernel = oldKernel
       /\ newKernel # oldKernel
       /\ Commit(b)
       /\ kernel' = newKernel
       /\ Tick
       /\ last' = Did("migrateKernelEvent", "kernel", <<>>, newKernel, b)
       /\ UNCHANGED <<videoExtendedNodes, mouseInVideo, buses, deferred>>

\* Dom.insertPlugin / Dom.removePlugin of a penetrate plugin: the overlay
\* node is bound and joins videoExtendedNodes, or is unbound and leaves it
BindEventOnPenetrateNode(node, remove) ==
    LET b == bindEventOnPenetrateNode(BinderState, node, remove)
    IN /\ remove <=> node \in Range(videoExtendedNodes)
       /\ Commit(b)
       /\ videoExtendedNodes' = IF remove
                                THEN SelectSeq(videoExtendedNodes, LAMBDA n : n # node)
                                ELSE Append(videoExtendedNodes, node)
       /\ Tick
       /\ last' = Did("bindEventOnPenetrateNode", "video-dom", <<>>, node, b)
       /\ UNCHANGED <<kernel, mouseInVideo, buses, deferred>>

BindEventOnVideo(node, remove) ==
    LET b == bindEventOnVideo(BinderState, node, remove)
    IN /\ Commit(b)
       /\ Tick
       /\ last' = Did("bindEventOnVideo", "video", <<>>, node, b)
       /\ UNCHANGED <<kernel, videoExtendedNodes, mouseInVideo, buses, deferred>>

Destroy ==
    LET b == destroy(BinderState)
    IN /\ Commit(b)
       /\ Tick
       /\ last' = [Did("destroy", "", <<>>, "", b) EXCEPT !.repeated = (last.op = "destroy")]
       /\ UNCHANGED <<kernel, videoExtendedNodes, mouseInVideo, buses, deferred>>

\* the physical source fires name: its listeners for name run in order
FireNative(node, name, ev) ==
    LET f == InvokeEach(FanState, listeners[node], name, ev)
    IN /\ \E i \in 1..Len(listeners[node]) : listeners[node][i].name = name
       /\ ev.type = name
       /\ Len(f.deferred) <= MaxDeferred
       /\ buses' = f.buses
       /\ deferred' = f.deferred
       /\ mouseInVideo' = f.mouseInVideo
       /\ Tick
       /\ last' = [NoOp EXCEPT !.op = "fire", !.node = node, !.name = name, !.ev = ev,
                               !.invoked = f.invoked, !.synth = f.synth]
       /\ UNCHANGED <<kernel, listeners, videoExtendedNodes, bindedEventNames,
                      bindedEventInfo, pendingEventsInfo>>

\* record of an emission made by the application or a plugin: the request
\* as passed, the fan-outs f ran at once, and what the method returned
Emission(op, info, f, backup) ==
    [NoOp EXCEPT !.op = op, !.name = info.name, !.id = info.id,
                 !.req = <<info.name, info.stage, info.target>>,
                 !.invoked = f.invoked,
                 !.ret = runnable(isEventEmitalbe(info), backup)]

Emit(info) ==
    LET f == emit(FanState, info)
    IN /\ Len(f.deferred) <= MaxDeferred
       /\ buses' = f.buses
       /\ deferred' = f.deferred
       /\ Tick
       /\ last' = Emission("emit", info, f, "undefined")
       /\ UNCHANGED <<kernel, listeners, videoExtendedNodes, mouseInVideo,
                      bindedEventNames, bindedEventInfo, pendingEventsInfo>>

EmitSync(info) ==
    LET f == emitSync(FanState, info)
    IN /\ Len(f.deferred) <= MaxDeferred
       /\ buses' = f.buses
       /\ deferred' = f.deferred
       /\ Tick
       /\ last' = Emission("emitSync", info, f, "false")
       /\ UNCHANGED <<kernel, listeners, videoExtendedNodes, mouseInVideo,
                      bindedEventNames, bindedEventInfo, pendingEventsInfo>>

Trigger(info) ==
    LET f == trigger(FanState, info)
    IN /\ Len(f.deferred) <= MaxDeferred
       /\ buses' = f.buses
       /\ deferred' = f.deferred
       /\ Tick
       /\ last' = Emission("trigger", info, f, "undefined")
       /\ UNCHANGED <<kernel, listeners, videoExtendedNodes, mouseInVideo,
                      bindedEventNames, bindedEventInfo, pendingEventsInfo>>

TriggerSync(info) ==
    LET f == triggerSync(FanState, info)
    IN /\ Len(f.deferred) <= MaxDeferred
       /\ buses' = f.buses
       /\ deferred' = f.deferred
       /\ Tick
       /\ last' = Emission("triggerSync", info, f, "false")
       /\ UNCHANGED <<kernel, listeners, videoExtendedNodes, mouseInVideo,
                      bindedEventNames, bindedEventInfo, pendingEventsInfo>>

\* a resolution of a request, as every public method starts with
GetEventInfo(info) ==
    LET r == getEventInfo(info)
    IN /\ Tick
       /\ last' = [NoOp EXCEPT !.op = "getEventInfo",
                               !.req = <<info.name, info.stage, info.target>>,
                               !.res = <<r.name, r.stage, r.target>>]
       /\ UNCHANGED <<kernel, listeners, videoExtendedNodes, mouseInVideo,
                      bindedEventNames, bindedEventInfo, pendingEventsInfo,
                      buses, deferred>>

\* the bus runs a fan-out it had scheduled
RunDeferred ==
    /\ deferred # <<>>
    /\ LET f == FanOut(FanState, Head(deferred).target, Head(deferred).name)
       IN /\ buses' = f.buses
          /\ Tick
          /\ last' = [NoOp EXCEPT !.op = "deferred", !.target = Head(deferred).target,
                                  !.name = Head(deferred).name, !.invoked = f.invoked]
    /\ deferred' = Tail(deferred)
    /\ UNCHANGED <<kernel, listeners, videoExtendedNodes, mouseInVideo, bindedEventNames,
                   bindedEventInfo, pendingEventsInfo>>

----------------------------------------------------------------------------
(* Specifications *)

\* every operation, over a small set of requests
MainInfos == Infos({"p1"}, {ReqPlay, ReqContainerClick, ReqDomEnter, ReqPause}) \cup {BadInfo}

Next ==
    \/ CreateKernel
    \/ \E info \in MainInfos : On(info)
    \/ \E info \in MainInfos : Once(info)
    \/ \E info \in MainInfos : Off(info)
    \/ \E target \in Targets : ApplyPendingEvents(target)
    \/ ListenOnMouseMoveEvent("videoElement")
    \/ \E o \in Kernels, n \in Kernels : MigrateKernelEvent(o, n)
    \/ \E remove \in BOOLEAN : BindEventOnPenetrateNode("pnode", remove)
    \/ \E remove \in BOOLEAN : BindEventOnVideo("video2", remove)
    \/ Destroy
    \/ \E node \in Sources, name \in {<<"play">>, <<"click">>, <<"mouseenter">>, <<"pause">>} :
         \E ev \in RawEvents(name) : FireNative(node, name, ev)
    \/ RunDeferred

Spec == Init /\ [][Next]_vars

\* subscriptions only: the engine appears, subscribers call on
OnInfos == Infos(Ids, AllRequests)

NextOn ==
    \/ CreateKernel
    \/ \E info \in OnInfos : On(info)

SpecOn == Init /\ [][NextOn]_vars

\* the life cycle of kernel and container subscriptions
SubInfos == Infos(Ids, {ReqPlay, ReqHeartbeat, ReqBeforePlay, ReqContainerClick})

NextSub ==
    \/ CreateKernel
    \/ \E info \in SubInfos : On(info)
    \/ \E info \in SubInfos : Once(info)
    \/ \E info \in SubInfos : Off(info)
    \/ ApplyPendingEvents("kernel")
    \/ \E o \in Kernels, n \in Kernels : MigrateKernelEvent(o, n)
    \/ \E node \in Kernels \cup {"container"}, name \in {<<"play">>, <<"heartbeat">>, <<"click">>} :
         \E ev \in RawEvents(name) : FireNative(node, name, ev)

SpecSub == Init /\ [][NextSub]_vars

\* the pointer crossing the video region and its overlay
MouseInfos == Infos({"p1"}, {ReqDomEnter, ReqDomLeave})

NextMouse ==
    \/ ListenOnMouseMoveEvent("videoElement")
    \/ \E info \in MouseInfos : On(info)
    \/ \E info \in MouseInfos : Off(info)
    \/ \E remove \in BOOLEAN : BindEventOnPenetrateNode("pnode", remove)
    \/ \E node \in {"videoElement", "pnode"}, name \in MouseNames :
         \E ev \in RawEvents(name) : FireNative(node, name, ev)

SpecMouse == Init /\ [][NextMouse]_vars

\* well-formed emissions reaching subscribers
EmitRequests == {ReqPlay, ReqContainerClick, ReqWrapperClick, ReqCustom}
EmitInfos == Infos({"p1"}, EmitRequests)

NextEmit ==
    \/ \E info \in EmitInfos : On(info)
    \/ \E info \in EmitInfos : Once(info)
    \/ \E info \in EmitInfos : Emit(info)
    \/ \E info \in EmitInfos : EmitSync(info)
    \/ \E info \in EmitInfos : Trigger(info)
    \/ \E info \in EmitInfos : TriggerSync(info)
    \/ RunDeferred

SpecEmit == Init /\ [][NextEmit]_vars

\* malformed emissions, one of each kind, next to a well-formed one
BadEmissions ==
    {RawInfo("p1", <<>>, "", "", TRUE), RawInfo("p1", <<NonString>>, "", "", TRUE),
     RawInfo("p1", <<"before", "Play">>, "", "", TRUE),
     RawInfo("p1", <<"after", "Play">>, "", "", TRUE),
     RawInfo("p1", <<"_", "play">>, "", "", TRUE),
     RawInfo("", <<"play">>, "", "", TRUE), RawInfo(NonString, <<"play">>, "", "", TRUE)}
BadEmitInfos == Infos({"p1"}, {ReqPlay}) \cup BadEmissions

NextBadEmit ==
    \/ \E info \in Infos(Ids, {ReqPlay, ReqBeforePlay}) : On(info)
    \/ \E info \in BadEmitInfos : Emit(info)
    \/ \E info \in BadEmitInfos : EmitSync(info)
    \/ \E info \in BadEmitInfos : Trigger(info)
    \/ \E info \in BadEmitInfos : TriggerSync(info)
    \/ RunDeferred

SpecBadEmit == Init /\ [][NextBadEmit]_vars

\* subscriptions whose handler is not callable, next to proper ones
BadOnRequests == {ReqPlay, ReqContainerClick, ReqDomEnter}
BadOnInfos == {RawInfo("p1", r[1], r[2], r[3], FALSE) : r \in BadOnRequests}

NextBadOn ==
    \/ CreateKernel
    \/ \E info \in Infos(Ids, BadOnRequests) \cup BadOnInfos : On(info)

SpecBadOn == Init /\ [][NextBadOn]_vars

\* name resolution over raw names with every supplied stage and target
ResolveNames ==
    {<<"play">>, <<"pause">>, <<"click">>, <<"mouseenter">>, <<"fullscreenchange">>,
     <<"custom">>, <<"error">>, <<"before", "Play">>, <<"after", "Click">>,
     <<"_", "custom">>, <<"c_", "click">>, <<"w_", "play">>, <<"c_", "before", "Play">>}
ResolveStages == {"", "before", "main", "after", "_"}
ResolveInfos ==
    {RawInfo("p1", n, st, t, TRUE) :
        n \in ResolveNames, st \in ResolveStages, t \in Targets \cup {""}}

NextResolve == \E info \in ResolveInfos : GetEventInfo(info)

SpecResolve == Init /\ [][NextResolve]_vars

\* the pending queues: subscriptions before and after the engine appears
PendInfos == Infos(Ids, {ReqPlay, ReqHeartbeat}) \cup Infos({"p1"}, {ReqContainerClick})

NextPend ==
    \/ CreateKernel
    \/ \E info \in PendInfos : On(info)
    \/ \E info \in Infos({"p1"}, {ReqPlay}) : Once(info)
    \/ \E info \in Infos({"p1"}, {ReqPlay, ReqContainerClick}) : Off(info)
    \/ \E target \in Targets : ApplyPendingEvents(target)
    \/ \E info \in Infos({"p1"}, {ReqPlay}) : Emit(info)
    \/ \E info \in Infos({"p1"}, {ReqPlay}) : Trigger(info)
    \/ \E o \in Kernels, n \in Kernels : MigrateKernelEvent(o, n)
    \/ Destroy
    \/ RunDeferred

SpecPend == Init /\ [][NextPend]_vars

\* one-shot subscriptions next to regular ones, on sources that fire
OnceInfos == Infos({"p1"}, {ReqPlay, ReqContainerClick, ReqDomClick, ReqVideoClick})

NextOnce ==
    \/ CreateKernel
    \/ \E info \in OnceInfos : On(info)
    \/ \E info \in OnceInfos : Once(info)
    \/ \E info \in OnceInfos : Off(info)
    \/ \E node \in {"K1", "container", "videoElement"}, name \in {<<"play">>, <<"click">>} :
         \E ev \in RawEvents(name) : FireNative(node, name, ev)
    \/ RunDeferred

SpecOnce == Init /\ [][NextOnce]_vars

----------------------------------------------------------------------------
(* Properties *)

Bindable == {"kernel", "container", "wrapper", "video", "video-dom"}

\* the physical source of target when the engine is k
PrimarySource(t, k) == IF t = "kernel" THEN k ELSE getTargetDom(t)

\* native callbacks the binder created for (t, n) that node carries
NativeCount(ls, node, t, n) ==
    Cardinality({i \in 1..Len(ls[node]) : ls[node][i].name = n /\ ls[node][i].fn.target = t})

SubNames(bs, t) == {s.name : s \in bs[t]}
PendingNames(t) == {pendingEventsInfo[t][i][1] : i \in 1..Len(pendingEventsInfo[t])}
NamesOf(infoList) == [i \in 1..Len(infoList) |-> infoList[i][1]]
NoDuplicates(seq) == \A i, j \in 1..Len(seq) : seq[i] = seq[j] => i = j

\* on was called for (t, n), and for the kernel only with the engine present
OnCase(t, n) ==
    /\ n \in SubNames(buses, t)
    /\ t = "kernel" => kernel # "none" /\ n \notin PendingNames("kernel")

\* C1 as claimed: after on calls for the same (target, name), the physical
\* source of every bindable target carries exactly one native callback for it
C1_Claim ==
    \A t \in Bindable : \A n \in SubNames(buses, t) :
        OnCase(t, n) => NativeCount(listeners, PrimarySource(t, kernel), t, n) = 1

\* C1 amended: exactly one native callback, except for the must-listen names
\* on the video target, for which on attaches none
C1_Amended ==
    \A t \in Bindable : \A n \in SubNames(buses, t) :
        OnCase(t, n) =>
            NativeCount(listeners, PrimarySource(t, kernel), t, n)
                = (IF isEventNeedToBeHandled(t, n) THEN 1 ELSE 0)

C1_Witness ==
    \E t \in Bindable : \E n \in SubNames(buses, t) :
        /\ OnCase(t, n)
        /\ Cardinality({s.id : s \in {x \in buses[t] : x.name = n}}) >= 2
        /\ NativeCount(listeners, PrimarySource(t, kernel), t, n) = 1

\* the off call that just ran removed the last subscriber of its (target, name)
\* (the step is   last'.op = "off")
RemovedLast ==
    /\ last'.op = "off" /\ ~last'.threw
    /\ last'.target \in Bindable
    /\ isEventNeedToBeHandled(last'.target, last'.name)
    /\ IsBinded(bindedEventNames[last'.target], last'.name)
    /\ last'.name \in SubNames(buses, last'.target)
    /\ last'.name \notin SubNames(buses', last'.target)

\* C2 as claimed: an off that removes the last subscriber of a (target, name)
\* with a recorded native listener detaches the recorded callback and removes
\* the entry from the NativeBinding, whatever other names are subscribed
C2_Claim ==
    [][RemovedLast =>
         LET t == last'.target
             n == last'.name
             fn == bindedEventInfo[t][InfoIndex(bindedEventInfo[t], n) + 1][2]
         IN /\ ~IsBinded(bindedEventNames'[t], n)
            /\ [name |-> n, fn |-> fn] \notin Range(listeners'[PrimarySource(t, kernel)])
            /\ [name |-> n, fn |-> fn] \in Range(listeners[PrimarySource(t, kernel)])
      ]_vars

\* C3: an off step that detaches anything leaves no subscriber of its
\* (target, name) on the bus
C3_NoDetachWhileSubscribed ==
    [][(last'.op = "off" /\ listeners' # listeners) =>
          last'.name \notin SubNames(buses', last'.target)]_vars

C3_Witness ==
    /\ last.op = "off" /\ ~last.threw
    /\ last.name \in SubNames(buses, last.target)
    /\ IsBinded(bindedEventNames[last.target], last.name)
    /\ NativeCount(listeners, PrimarySource(last.target, kernel), last.target, last.name) = 1

\* C4 as claimed: a flush with the engine present binds the pending names,
\* none of them bound before, in the order they were enqueued
C4_Claim ==
    [][(/\ last'.op = "applyPendingEvents" /\ last'.target = "kernel"
        /\ kernel # "none"
        /\ NoDuplicates(NamesOf(pendingEventsInfo["kernel"]))
        /\ \A n \in PendingNames("kernel") : ~IsBinded(bindedEventNames["kernel"], n))
       => /\ bindedEventNames'["kernel"]
               = bindedEventNames["kernel"] \o NamesOf(pendingEventsInfo["kernel"])
          /\ listeners'[kernel]
               = listeners[kernel] \o
                   [i \in 1..Len(pendingEventsInfo["kernel"]) |->
                      listeners'[kernel][Len(listeners[kernel]) + i]]
          /\ \A i \in 1..Len(pendingEventsInfo["kernel"]) :
               listeners'[kernel][Len(listeners[kernel]) + i].name
                   = pendingEventsInfo["kernel"][i][1]
      ]_vars

\* the handlers a firing log invoked
Handlers(inv) == UNION {inv[i].subs : i \in 1..Len(inv)}

\* the handlers some native event fired on node reaches, given the attached
\* callbacks ls and the subscriptions bs
Reached(ls, bs, node) ==
    UNION {Handlers(InvokeEach([buses |-> bs, deferred |-> <<>>, invoked |-> <<>>,
                                mouseInVideo |-> FALSE, synth |-> 0],
                               ls[node], n, RawEvent(n, FALSE, FALSE)).invoked)
             : n \in {ls[node][i].name : i \in 1..Len(ls[node])}}

\* C5: a migration leaves every recorded kernel callback attached to the new
\* engine and none to the old; the new engine reaches every handler the old
\* one reached, the old engine reaches none; binding and buses are unchanged
C5_Migration ==
    [][(last'.op = "migrateKernelEvent") =>
         LET old == kernel
             new == kernel'
             info == bindedEventInfo["kernel"]
         IN /\ \A i \in 1..Len(info) :
                  /\ [name |-> info[i][1], fn |-> info[i][2]] \in Range(listeners'[new])
                  /\ [name |-> info[i][1], fn |-> info[i][2]] \notin Range(listeners'[old])
            /\ Reached(listeners, buses, old) \subseteq Reached(listeners', buses', new)
            /\ Reached(listeners', buses', old) = {}
            /\ bindedEventNames' = bindedEventNames
            /\ bindedEventInfo' = bindedEventInfo
            /\ buses' = buses
      ]_vars

C5_Witness ==
    /\ last.op = "migrateKernelEvent" /\ ~last.threw
    /\ bindedEventInfo["kernel"] # <<>>
    /\ Reached(listeners, buses, kernel) # {}

\* the node carries a containment callback for name
HasTracker(node, name) ==
    \E i \in 1..Len(listeners[node]) :
        listeners[node][i].name = name /\ listeners[node][i].fn.kind = "vm"

\* C6: a raw mouseenter inside the region while outside flips mouseInVideo to
\* TRUE with one synthetic triggerSync; a raw mouseleave towards a node outside
\* the region while inside flips it to FALSE with one synthetic triggerSync;
\* every other raw event leaves mouseInVideo alone and synthesizes nothing
C6_Containment ==
    [][(last'.op = "fire" /\ HasTracker(last'.node, last'.name)) =>
         LET ev == last'.ev
         IN IF ev.type = <<"mouseenter">> /\ ~mouseInVideo /\ ev.curInside
            THEN mouseInVideo' /\ last'.synth = 1
            ELSE IF ev.type = <<"mouseleave">> /\ mouseInVideo /\ ~ev.toInside
            THEN ~mouseInVideo' /\ last'.synth = 1
            ELSE mouseInVideo' = mouseInVideo /\ last'.synth = 0
      ]_vars

C6_Witness ==
    /\ last.op = "fire" /\ last.ev.type = <<"mouseleave">>
    /\ last.synth = 1 /\ ~mouseInVideo

\* C7 as claimed: destroy detaches every recorded callback from every source
\* and leaves the NativeBinding of every target empty, names and pairs
C7_Claim ==
    [][(last'.op = "destroy" /\ ~last'.threw) =>
         /\ \A t \in Targets : \A i \in 1..Len(bindedEventInfo[t]) : \A node \in Sources :
                [name |-> bindedEventInfo[t][i][1], fn |-> bindedEventInfo[t][i][2]]
                    \notin Range(listeners'[node])
         /\ \A t \in Targets : bindedEventNames'[t] = <<>> /\ bindedEventInfo'[t] = <<>>
      ]_vars

C9_NamesMatchInfo ==
    \A t \in Targets :
        /\ bindedEventNames[t] = NamesOf(bindedEventInfo[t])
        /\ NoDuplicates(bindedEventNames[t])

C9_Witness ==
    /\ last.op = "listenOnMouseMoveEvent"
    /\ bindedEventNames["video-dom"] = mustListenVideoDomEvents
    /\ Cardinality({i \in 1..Len(listeners["videoElement"]) :
                      listeners["videoElement"][i].name = <<"mouseenter">>}) >= 2

\* C10: a destroy that follows a destroy raises nothing and changes neither
\* the attached callbacks nor the NativeBinding of any target
C10_DestroyTwice ==
    [][(last.op = "destroy" /\ last'.op = "destroy") =>
         /\ ~last'.threw
         /\ listeners' = listeners
         /\ bindedEventNames' = bindedEventNames
         /\ bindedEventInfo' = bindedEventInfo
      ]_vars

C10_Witness ==
    /\ last.op = "destroy" /\ last.repeated /\ ~last.threw
    /\ \E t \in Targets : bindedEventInfo[t] # <<>>

\* a request as C11 calls malformed: name missing, empty, not a string or
\* stage-prefixed, or id missing, empty or not a string
Malformed(name, id) ==
    \/ name = <<>>
    \/ Head(name) = NonString
    \/ Head(name) \in {"before", "after", "_"}
    \/ id = ""
    \/ id = NonString

EmissionOps == {"emit", "emitSync", "trigger", "triggerSync"}

\* C11: a malformed emission does not throw, fans out on no bus at once or
\* later, and emitSync / triggerSync return false
C11_MalformedEmission ==
    [][(last'.op \in EmissionOps /\ Malformed(last'.name, last'.id)) =>
         /\ ~last'.threw
         /\ last'.invoked = <<>>
         /\ buses' = buses
         /\ deferred' = deferred
         /\ last'.op \in {"emitSync", "triggerSync"} => last'.ret = "false"
      ]_vars

C11_Witness ==
    /\ last.op = "emitSync" /\ last.ret = "false"
    /\ last.name = <<"before", "Play">>
    /\ \E s \in buses["kernel"] : s.name = <<"play">> /\ s.stage = "before"

\* C12: on with a handler that is not callable throws an error carrying the
\* event name and changes no source, NativeBinding, pending queue or bus
C12_NotCallable ==
    [][\A info \in BadOnInfos :
         On(info) =>
           /\ last'.threw
           /\ last'.name = getEventInfo(info).name
           /\ listeners' = listeners
           /\ bindedEventNames' = bindedEventNames
           /\ bindedEventInfo' = bindedEventInfo
           /\ pendingEventsInfo' = pendingEventsInfo
           /\ buses' = buses
      ]_vars

C12_Witness ==
    /\ last.op = "on" /\ last.threw /\ last.name = <<"click">>
    /\ buses["container"] # {}
    /\ IsBinded(bindedEventNames["container"], <<"click">>)

\* the target the legacy rule gives a raw name, "" when it does not apply
LegacyTarget(name) ==
    IF name = <<>> THEN ""
    ELSE IF Head(name) = "c_" THEN "container"
    ELSE IF Head(name) = "w_" THEN "wrapper"
    ELSE IF name = <<"error">> THEN "kernel"
    ELSE ""

\* C13 as claimed: a supplied stage is the resolved stage, a supplied target
\* is the resolved target, and without a supplied target a legacy name
\* resolves to its legacy target
C13_Claim ==
    last.op = "getEventInfo" =>
        /\ last.req[2] # "" => last.res[2] = last.req[2]
        /\ last.req[3] # "" => last.res[3] = last.req[3]
        /\ (last.req[3] = "" /\ LegacyTarget(last.req[1]) # "")
              => last.res[3] = LegacyTarget(last.req[1])

\* C14: only the kernel has pending entries, and the kernel queue grows only
\* by an on for target kernel made while the engine is absent
C14_OnlyKernelPends ==
    [][/\ \A t \in Targets \ {"kernel"} : pendingEventsInfo'[t] = <<>>
       /\ (\/ Len(pendingEventsInfo'["kernel"]) > Len(pendingEventsInfo["kernel"])
           \/ ~(Range(pendingEventsInfo'["kernel"]) \subseteq Range(pendingEventsInfo["kernel"])))
          => /\ last'.op = "on" /\ last'.target = "kernel" /\ kernel = "none"
             /\ \E id \in Ids :
                  pendingEventsInfo'["kernel"]
                      = Append(pendingEventsInfo["kernel"], <<last'.name, id>>)
      ]_vars

C14_Witness ==
    /\ last.op = "on" /\ last.target = "container"
    /\ kernel = "none"
    /\ pendingEventsInfo["kernel"] # <<>>
    /\ IsBinded(bindedEventNames["container"], <<"click">>)

\* how many times e occurs in seq
Occurrences(seq, e) == Cardinality({i \in 1..Len(seq) : seq[i] = e})

\* C15: a flush of the kernel queue with the engine present empties it and
\* leaves each drained name recorded once with one native callback; without
\* the engine it attaches nothing and keeps every entry, as often as before
C15_Flush ==
    [][(last'.op = "applyPendingEvents" /\ last'.target = "kernel") =>
         IF kernel # "none"
         THEN /\ pendingEventsInfo'["kernel"] = <<>>
              /\ \A n \in PendingNames("kernel") :
                   /\ Occurrences(bindedEventNames'["kernel"], n) = 1
                   /\ Occurrences(NamesOf(bindedEventInfo'["kernel"]), n) = 1
                   /\ NativeCount(listeners', kernel, "kernel", n) = 1
         ELSE /\ listeners' = listeners
              /\ bindedEventNames' = bindedEventNames
              /\ bindedEventInfo' = bindedEventInfo
              /\ Len(pendingEventsInfo'["kernel"]) = Len(pendingEventsInfo["kernel"])
              /\ \A e \in Range(pendingEventsInfo["kernel"]) :
                   Occurrences(pendingEventsInfo'["kernel"], e)
                       = Occurrences(pendingEventsInfo["kernel"], e)
      ]_vars

\* a flush with the engine present drained two entries of one name
C15_Witness ==
    /\ last.op = "applyPendingEvents" /\ last.target = "kernel"
    /\ kernel # "none"
    /\ Len(last.drained) = 2
    /\ last.drained[1][1] = last.drained[2][1]
    /\ pendingEventsInfo["kernel"] = <<>>
    /\ bindedEventNames["kernel"] = << last.drained[1][1] >>

\* C16: once changes no source, NativeBinding or pending queue; and a native
\* firing invokes only handlers of a (target, name) whose native callback
\* the firing source carries, so a handler known only through once to a
\* (target, name) without native callback is not invoked
C16_OnceNative ==
    [][/\ last'.op = "once" =>
            /\ listeners' = listeners
            /\ bindedEventNames' = bindedEventNames
            /\ bindedEventInfo' = bindedEventInfo
            /\ pendingEventsInfo' = pendingEventsInfo
       /\ last'.op = "fire" =>
            \A i \in 1..Len(last'.invoked) : \A s \in last'.invoked[i].subs :
                NativeCount(listeners, last'.node, last'.invoked[i].target, s.name) >= 1
      ]_vars

\* click fired on the video element, which carries the callback of the video
\* target only; the one-shot handler of video-dom was not invoked and waits
C16_Witness ==
    /\ last.op = "fire" /\ last.node = "videoElement" /\ last.name = <<"click">>
    /\ ~IsBinded(bindedEventNames["video-dom"], <<"click">>)
    /\ \E s \in buses["video-dom"] : s.name = <<"click">> /\ s.once
    /\ \A i \in 1..Len(last.invoked) : last.invoked[i].target # "video-dom"

\* the containment callbacks a node carries
Trackers(ls, node) ==
    {e \in Range(ls[node]) : e.fn.kind = "vm"}

\* C17 as claimed: no on, once or off detaches a containment callback or
\* removes its entry from the video-dom NativeBinding
C17_Claim ==
    [][(last'.op \in {"on", "once", "off"}) =>
         /\ \A node \in Sources : Trackers(listeners, node) \subseteq Trackers(listeners', node)
         /\ \A i \in 1..Len(bindedEventInfo["video-dom"]) :
              bindedEventInfo["video-dom"][i][2].kind = "vm" =>
                 /\ bindedEventInfo["video-dom"][i] \in Range(bindedEventInfo'["video-dom"])
                 /\ IsBinded(bindedEventNames'["video-dom"], bindedEventInfo["video-dom"][i][1])
      ]_vars

\* C18 as claimed: listenOnMouseMoveEvent attaches nothing for a must-listen
\* name already recorded for video-dom, and no node carries two callbacks of
\* video-dom for one must-listen name
C18_Claim ==
    [][/\ last'.op = "listenOnMouseMoveEvent" =>
            \A n \in MouseNames :
               IsBinded(bindedEventNames["video-dom"], n) =>
                  NativeCount(listeners', last'.node, "video-dom", n)
                      = NativeCount(listeners, last'.node, "video-dom", n)
       /\ \A node \in Sources : \A n \in MouseNames :
            NativeCount(listeners', node, "video-dom", n) <= 1
      ]_vars

\* the resolution on applies to the request an emission was made with
Registered(req) == getEventInfo([name |-> req[1], stage |-> req[2], target |-> req[3]])

\* C19 as claimed: a well-formed emission fans out, at once or scheduled, on
\* the bus of the resolved target under the name on registers for the raw
\* name, so every handler on subscribed under that raw name is reached
C19_Claim ==
    [][(last'.op \in EmissionOps /\ ~Malformed(last'.name, last'.id)) =>
         LET r == Registered(last'.req)
         IN IF last'.op \in {"emitSync", "triggerSync"}
            THEN /\ Len(last'.invoked) = 1
                 /\ last'.invoked[1].target = r.target
                 /\ last'.invoked[1].name = r.name
                 /\ {s \in buses[r.target] : s.name = r.name} \subseteq Handlers(last'.invoked)
            ELSE deferred' = Append(deferred, [target |-> r.target, name |-> r.name])
      ]_vars

\* C20: mouseInVideo starts FALSE and changes only with a synthetic event;
\* a raw event issues at most one synthetic event, an enter only while
\* mouseInVideo is FALSE, making it TRUE, a leave only while it is TRUE,
\* making it FALSE: synthetic enters and leaves alternate, enter first, and
\* mouseInVideo tells that the last one was an enter
C20_Alternation ==
    [][/\ (last'.op = "fire" /\ last'.synth >= 1) =>
            /\ last'.synth = 1
            /\ last'.name \in MouseNames
            /\ last'.name = <<"mouseenter">> => ~mouseInVideo /\ mouseInVideo'
            /\ last'.name = <<"mouseleave">> => mouseInVideo /\ ~mouseInVideo'
       /\ mouseInVideo' # mouseInVideo => last'.op = "fire" /\ last'.synth = 1
       /\ ops = 0 => ~mouseInVideo
      ]_vars

\* a raw mouseenter inside the region while already inside issued nothing
C20_Witness ==
    /\ last.op = "fire" /\ last.name = <<"mouseenter">>
    /\ last.ev.curInside
    /\ last.synth = 0
    /\ mouseInVideo

====
